---- MODULE Spec2Model ----
(***************************************************************************)
(* The recruitment ETL pipeline: extract (extract.py), transform           *)
(* (transform.py), load (load.py), sequenced by run_pipeline (main.py).    *)
(*                                                                         *)
(* A DataFrame is a sequence of rows; a row is a function from column      *)
(* names to cells.  A cell is <<>> (NaN / NaT / None) or <<v>>.            *)
(* A text value is a sequence of character codes, so that str.strip and    *)
(* the lexicographic order of sort_values are computed, not assumed.       *)
(* A timestamp is <<year, month, day, hour>>; strftime("%Y-%m-%d") keeps   *)
(* <<year, month, day>> and drops the time of day.                         *)
(***************************************************************************)
EXTENDS Integers, Sequences, FiniteSets, TLC

\* ------------------------------------------------------------------ bounds
MaxRows == 3
MaxBadRows == 1
MaxFactRows == 2
MaxDimRows == 2

\* --------------------------------------------------------------- constants
HireThreshold == 7

NaN == <<>>

TextCols == <<"First Name", "Last Name", "Email", "Country", "Seniority", "Technology">>

ExpectedColumns ==
    {"First Name", "Last Name", "Email", "Application Date", "Country", "YOE",
     "Seniority", "Technology", "Code Challenge Score", "Technical Interview Score"}

NumericCols == {"YOE", "Code Challenge Score", "Technical Interview Score"}

FkCols == <<"candidate_key", "date_key", "country_key", "seniority_key", "technology_key">>

\* ------------------------------------------------------- pandas primitives
Range(s) == {s[i] : i \in DOMAIN s}

isnull(cell) == cell = NaN

RECURSIVE SumSeq(_)
SumSeq(s) == IF s = <<>> THEN 0 ELSE Head(s) + SumSeq(Tail(s))

\* str.isspace of one character code
IsSpace(c) == c \in {9, 10, 11, 12, 13, 32}

RECURSIVE lstrip(_)
lstrip(t) == IF t = <<>> THEN t
             ELSE IF IsSpace(Head(t)) THEN lstrip(Tail(t)) ELSE t

RECURSIVE rstrip(_)
rstrip(t) == IF t = <<>> THEN t
             ELSE IF IsSpace(t[Len(t)]) THEN rstrip(SubSeq(t, 1, Len(t) - 1)) ELSE t

\* Series.str.strip on one cell: NaN stays NaN
str_strip(cell) == IF isnull(cell) THEN NaN ELSE <<rstrip(lstrip(cell[1]))>>

\* lexicographic order on sequences of integers (text, timestamps, dates)
RECURSIVE LexLess(_, _)
LexLess(a, b) ==
    IF b = <<>> THEN FALSE
    ELSE IF a = <<>> THEN TRUE
    ELSE IF Head(a) < Head(b) THEN TRUE
    ELSE IF Head(a) > Head(b) THEN FALSE
    ELSE LexLess(Tail(a), Tail(b))

\* order used by sort_values: values ascending, NaN last
CellLess(x, y) ==
    IF isnull(x) THEN FALSE
    ELSE IF isnull(y) THEN TRUE
    ELSE LexLess(x[1], y[1])

\* Series.drop_duplicates(): keeps the first occurrence, in order
RECURSIVE drop_duplicates(_)
drop_duplicates(s) ==
    IF s = <<>> THEN <<>>
    ELSE LET init == drop_duplicates(SubSeq(s, 1, Len(s) - 1))
             x    == s[Len(s)]
         IN IF x \in Range(init) THEN init ELSE Append(init, x)

RECURSIVE InsertSorted(_, _)
InsertSorted(s, x) ==
    IF s = <<>> THEN <<x>>
    ELSE IF CellLess(x, Head(s)) THEN <<x>> \o s
    ELSE <<Head(s)>> \o InsertSorted(Tail(s), x)

\* Series.sort_values(): ascending
RECURSIVE sort_values(_)
sort_values(s) ==
    IF s = <<>> THEN <<>>
    ELSE InsertSorted(sort_values(SubSeq(s, 1, Len(s) - 1)), s[Len(s)])

Column(df, col) == [i \in DOMAIN df |-> df[i][col]]

dropna_used_columns(df) ==
    SelectSeq(df, LAMBDA r : \A c \in DOMAIN r \ {"YOE"} : ~isnull(r[c]))

\* DataFrame.dropna(): keeps the rows without any missing cell
dropna(df) == SelectSeq(df, LAMBDA r : \A c \in DOMAIN r : ~isnull(r[c]))

\* df.isnull().sum().sum()
NullCount(df) ==
    SumSeq([i \in DOMAIN df |-> Cardinality({c \in DOMAIN df[i] : isnull(df[i][c])})])

\* Series.dt.strftime("%Y-%m-%d") on one cell: the time of day is dropped
strftime(cell) ==
    IF isnull(cell) THEN NaN ELSE <<SubSeq(cell[1], 1, 3)>>

dt_year(cell) == IF isnull(cell) THEN NaN ELSE <<cell[1][1]>>
dt_month(cell) == IF isnull(cell) THEN NaN ELSE <<cell[1][2]>>
dt_quarter(cell) == IF isnull(cell) THEN NaN ELSE <<((cell[1][2] - 1) \div 3) + 1>>

\* Series >= scalar on one cell: a comparison with NaN is False
ScoreGE(cell, n) == ~isnull(cell) /\ cell[1] >= n

\* ------------------------------------------------------------ transform.py
HiredMutant(r) ==
    IF ScoreGE(r["Code Challenge Score"], HireThreshold + 1)
       /\ ScoreGE(r["Technical Interview Score"], HireThreshold + 1)
    THEN 1 ELSE 0

Hired(r) ==
    IF ScoreGE(r["Code Challenge Score"], HireThreshold)
       /\ ScoreGE(r["Technical Interview Score"], HireThreshold)
    THEN 1 ELSE 0

apply_hiring_rule(df) ==
    [i \in DOMAIN df |-> df[i] @@ ("is_hired" :> <<Hired(df[i])>>)]

StripRow(r) ==
    [c \in DOMAIN r |-> IF c \in Range(TextCols) THEN str_strip(r[c]) ELSE r[c]]

handle_data_quality_dedup(df) ==
    LET kept == drop_duplicates(IF NullCount(df) > 0 THEN dropna(df) ELSE df)
    IN [i \in DOMAIN kept |-> StripRow(kept[i])]

handle_data_quality(df) ==
    LET kept == IF NullCount(df) > 0 THEN dropna(df) ELSE df
    IN [i \in DOMAIN kept |-> StripRow(kept[i])]

create_dim_candidate(df) ==
    LET triples == [i \in DOMAIN df |->
                      <<df[i]["First Name"], df[i]["Last Name"], df[i]["Email"]>>]
        u == drop_duplicates(triples)
    IN [i \in DOMAIN u |->
          [candidate_key |-> i, first_name |-> u[i][1],
           last_name |-> u[i][2], email |-> u[i][3]]]

create_dim_date(df) ==
    LET dates == sort_values(drop_duplicates(Column(df, "Application Date")))
    IN [i \in DOMAIN dates |->
          [date_key |-> i, full_date |-> strftime(dates[i]),
           year |-> dt_year(dates[i]), month |-> dt_month(dates[i]),
           quarter |-> dt_quarter(dates[i])]]

create_dim_country_unsorted(df) ==
    LET countries == drop_duplicates(Column(df, "Country"))
    IN [i \in DOMAIN countries |-> [country_key |-> i, country_name |-> countries[i]]]

create_dim_country(df) ==
    LET countries == sort_values(drop_duplicates(Column(df, "Country")))
    IN [i \in DOMAIN countries |-> [country_key |-> i, country_name |-> countries[i]]]

create_dim_seniority(df) ==
    LET levels == sort_values(drop_duplicates(Column(df, "Seniority")))
    IN [i \in DOMAIN levels |-> [seniority_key |-> i, seniority_level |-> levels[i]]]

create_dim_technology(df) ==
    LET techs == sort_values(drop_duplicates(Column(df, "Technology")))
    IN [i \in DOMAIN techs |-> [technology_key |-> i, technology_name |-> techs[i]]]

IsUnique(s) == \A i, j \in DOMAIN s : s[i] = s[j] => i = j

map_value_by_position(key, index, values) ==
    IF \E i \in DOMAIN index : index[i] = key THEN <<values[1]>> ELSE NaN

map_value_zero_based(key, index, values) ==
    IF \E i \in DOMAIN index : index[i] = key
    THEN <<values[CHOOSE i \in DOMAIN index : index[i] = key] - 1>>
    ELSE NaN

\* one element of Series.map(mapper) / Index.map(mapper), mapper a Series with
\* index `index` and values `values`: a key absent from the index maps to NaN
map_value(key, index, values) ==
    IF \E i \in DOMAIN index : index[i] = key
    THEN <<values[CHOOSE i \in DOMAIN index : index[i] = key]>>
    ELSE NaN

\* Series.map(mapper): get_indexer raises InvalidIndexError when the mapper's
\* index holds a duplicate
map_raises(index) == ~IsUnique(index)

candidate_map_index(dim_candidate) ==
    [i \in DOMAIN dim_candidate |->
       <<dim_candidate[i].first_name, dim_candidate[i].last_name, dim_candidate[i].email>>]

null_keys(fact) ==
    [k \in Range(FkCols) |-> Cardinality({i \in DOMAIN fact : isnull(fact[i][k])})]

\* what the referential integrity check prints: the counts of the foreign key
\* columns that hold a null, and nothing else ("PASSED") when there is none
ri_warning(fact) ==
    LET nk == null_keys(fact)
    IN [k \in {c \in Range(FkCols) : nk[c] > 0} |-> nk[k]]

\* fact = df.copy() with the five mapped key columns added
map_keys(df, dim_candidate, dim_date, dim_country, dim_seniority, dim_technology) ==
    LET cand_ix == candidate_map_index(dim_candidate)
        date_ix == [i \in DOMAIN dim_date |-> dim_date[i].full_date]
        ctry_ix == [i \in DOMAIN dim_country |-> dim_country[i].country_name]
        sen_ix  == [i \in DOMAIN dim_seniority |-> dim_seniority[i].seniority_level]
        tech_ix == [i \in DOMAIN dim_technology |-> dim_technology[i].technology_name]
    IN [raised |-> \/ map_raises(cand_ix) \/ map_raises(date_ix) \/ map_raises(ctry_ix)
                   \/ map_raises(sen_ix) \/ map_raises(tech_ix),
        fact |->
          [i \in DOMAIN df |->
             df[i]
             @@ ("candidate_key" :>
                   map_value(<<df[i]["First Name"], df[i]["Last Name"], df[i]["Email"]>>,
                             cand_ix,
                             [j \in DOMAIN dim_candidate |-> dim_candidate[j].candidate_key]))
             @@ ("date_key" :>
                   map_value(strftime(df[i]["Application Date"]), date_ix,
                             [j \in DOMAIN dim_date |-> dim_date[j].date_key]))
             @@ ("country_key" :>
                   map_value(df[i]["Country"], ctry_ix,
                             [j \in DOMAIN dim_country |-> dim_country[j].country_key]))
             @@ ("seniority_key" :>
                   map_value(df[i]["Seniority"], sen_ix,
                             [j \in DOMAIN dim_seniority |-> dim_seniority[j].seniority_key]))
             @@ ("technology_key" :>
                   map_value(df[i]["Technology"], tech_ix,
                             [j \in DOMAIN dim_technology |-> dim_technology[j].technology_key]))]]

select_fact_columns_dropna(fact) ==
    LET kept == SelectSeq(fact, LAMBDA r : \A k \in Range(FkCols) : ~isnull(r[k]))
    IN [i \in DOMAIN kept |->
          [candidate_key |-> kept[i]["candidate_key"],
           date_key |-> kept[i]["date_key"],
           country_key |-> kept[i]["country_key"],
           seniority_key |-> kept[i]["seniority_key"],
           technology_key |-> kept[i]["technology_key"],
           code_challenge_score |-> kept[i]["Code Challenge Score"],
           technical_interview_score |-> kept[i]["Technical Interview Score"],
           is_hired |-> kept[i]["is_hired"]]]

\* the eight columns of the fact table, renamed
select_fact_columns(fact) ==
    [i \in DOMAIN fact |->
       [candidate_key |-> fact[i]["candidate_key"],
        date_key |-> fact[i]["date_key"],
        country_key |-> fact[i]["country_key"],
        seniority_key |-> fact[i]["seniority_key"],
        technology_key |-> fact[i]["technology_key"],
        code_challenge_score |-> fact[i]["Code Challenge Score"],
        technical_interview_score |-> fact[i]["Technical Interview Score"],
        is_hired |-> fact[i]["is_hired"]]]

insert_application_id_zero_based(fact) ==
    [i \in DOMAIN fact |-> [application_id |-> i - 1] @@ fact[i]]

\* fact.insert(0, "application_id", range(1, len(fact) + 1))
insert_application_id(fact) ==
    [i \in DOMAIN fact |-> [application_id |-> i] @@ fact[i]]

create_fact_table(df, dim_candidate, dim_date, dim_country, dim_seniority, dim_technology) ==
    LET m == map_keys(df, dim_candidate, dim_date, dim_country, dim_seniority,
                      dim_technology)
        fact == insert_application_id(select_fact_columns(m.fact))
    IN IF m.raised
       THEN [raised |-> TRUE, fact |-> <<>>, warning |-> <<>>]
       ELSE [raised |-> FALSE, fact |-> fact, warning |-> ri_warning(fact)]

\* the six tables of a run that got as far as create_fact_table
BuildDims(df) ==
    [dim_candidate |-> create_dim_candidate(df),
     dim_date |-> create_dim_date(df),
     dim_country |-> create_dim_country(df),
     dim_seniority |-> create_dim_seniority(df),
     dim_technology |-> create_dim_technology(df)]

\* transform_data as one function of its input frame
transform_data(df0) ==
    LET df   == apply_hiring_rule(handle_data_quality(df0))
        dims == BuildDims(df)
        res  == create_fact_table(df, dims.dim_candidate, dims.dim_date, dims.dim_country,
                                  dims.dim_seniority, dims.dim_technology)
    IN [raised |-> res.raised,
        tables |-> dims @@ [fact_applications |-> res.fact]]

\* -------------------------------------------------------------- extract.py
\* raw is what pd.read_csv returned: the columns found, the numeric columns
\* that came out with a non-numeric dtype, whether every Application Date
\* parses, and the rows
extract_data(raw) ==
    IF ExpectedColumns \ raw.columns # {}
    THEN [raised |-> TRUE, error |-> "ValueError", df |-> <<>>]
    ELSE IF ~raw.date_ok
    THEN [raised |-> TRUE, error |-> "DateParseError", df |-> <<>>]
    ELSE IF NumericCols \cap raw.object_cols # {}
    THEN [raised |-> TRUE, error |-> "TypeError", df |-> <<>>]
    ELSE [raised |-> FALSE, error |-> "none", df |-> raw.rows]

\* ----------------------------------------------------------------- load.py
TableNames ==
    {"dim_candidate", "dim_date", "dim_country", "dim_seniority", "dim_technology",
     "fact_applications"}

EmptyTables == [t \in TableNames |-> <<>>]

NoDb == [exists |-> FALSE, tables |-> EmptyTables]

create_database_keep(store) ==
    IF store.exists THEN store ELSE [exists |-> TRUE, tables |-> EmptyTables]

\* create_database: any previous file is removed, the DDL creates empty tables
create_database(store) == [exists |-> TRUE, tables |-> EmptyTables]

\* DataFrame.to_sql(table_name, conn, if_exists="append")
to_sql(store, name, rows) ==
    [store EXCEPT !.tables[name] = store.tables[name] \o rows]

LoadOrderFactFirst ==
    <<"fact_applications", "dim_candidate", "dim_date", "dim_country", "dim_seniority",
      "dim_technology">>

\* the order of the to_sql calls in load_data
LoadOrder ==
    <<"dim_candidate", "dim_date", "dim_country", "dim_seniority", "dim_technology",
      "fact_applications">>

\* ------------------------------------------------------------------ main.py
\* run_pipeline: the stage that follows `stage`; an exception raised by a stage
\* propagates out of run_pipeline
next_stage_swallow(stage, raised) ==
    CASE stage = "extract" -> IF raised THEN "create_database" ELSE "clean"
      [] stage = "fact"    -> "create_database"
      [] OTHER             -> "aborted"

next_stage(stage, raised) ==
    IF raised THEN "aborted"
    ELSE CASE stage = "extract" -> "clean"
           [] stage = "fact"    -> "create_database"
           [] OTHER             -> "aborted"

\* ------------------------------------------------------------ input domain
Cell(v) == <<v>>

Row(first, last, email, date, country, yoe, seniority, technology, ccs, tis) ==
    ("First Name" :> first) @@ ("Last Name" :> last) @@ ("Email" :> email)
    @@ ("Application Date" :> date) @@ ("Country" :> country) @@ ("YOE" :> yoe)
    @@ ("Seniority" :> seniority) @@ ("Technology" :> technology)
    @@ ("Code Challenge Score" :> ccs) @@ ("Technical Interview Score" :> tis)

\* "A", "B", "eA", 2024-01-10 00:00, "US", 1, "Jr", "Go", 8, 8
BaseRow ==
    Row(Cell(<<65>>), Cell(<<66>>), Cell(<<101, 65>>), Cell(<<2024, 1, 10, 0>>),
        Cell(<<85, 83>>), Cell(1), Cell(<<74, 114>>), Cell(<<71, 111>>), Cell(8), Cell(8))

\* "C", "D", "eC", 2024-01-10 00:00, "US", 9, "Sr", "Go", 5, 9
SecondRow ==
    Row(Cell(<<67>>), Cell(<<68>>), Cell(<<101, 67>>), Cell(<<2024, 1, 10, 0>>),
        Cell(<<85, 83>>), Cell(9), Cell(<<83, 114>>), Cell(<<71, 111>>), Cell(5), Cell(9))

With(r, col, cell) == [r EXCEPT ![col] = cell]

DateRows ==
    {With(BaseRow, "Application Date", Cell(<<2024, 1, 10, 9>>)),
     With(BaseRow, "Application Date", Cell(<<2023, 12, 31, 0>>))}

\* " A" for the first name; " US " and "CO" for the country
TextRows ==
    {With(BaseRow, "First Name", Cell(<<32, 65>>)),
     With(BaseRow, "Country", Cell(<<32, 85, 83, 32>>)),
     With(BaseRow, "Country", Cell(<<67, 79>>))}

ScoreRows ==
    {With(With(BaseRow, "Code Challenge Score", Cell(7)), "Technical Interview Score", Cell(7)),
     With(With(BaseRow, "Code Challenge Score", Cell(6)), "Technical Interview Score", Cell(10)),
     With(BaseRow, "Technical Interview Score", Cell(6))}

NullRows ==
    {With(BaseRow, "YOE", NaN),
     With(SecondRow, "Application Date", NaN)}

RowPool == {BaseRow, SecondRow} \cup DateRows \cup TextRows \cup ScoreRows \cup NullRows

FactPool ==
    {BaseRow, SecondRow, With(BaseRow, "Country", Cell(<<67, 79>>))} \cup DateRows

SeqsUpTo(S, n) == UNION {[1..k -> S] : k \in 0..n}

\* the frames read_csv can return: well-formed ones, and ones that extract_data
\* rejects (a column missing, a date that does not parse, a non-numeric score).
\* A file without data rows gives every column the object dtype.
ReadCsv(cols, oc, ok, rows) ==
    [columns |-> cols,
     object_cols |-> IF rows = <<>> THEN oc \cup NumericCols ELSE oc,
     date_ok |-> ok,
     rows |-> rows]

GoodInputs ==
    {ReadCsv(ExpectedColumns, {}, TRUE, rows) : rows \in SeqsUpTo(RowPool, MaxRows)}

BadInputs ==
    {ReadCsv(cols, oc, ok, rows) :
        cols \in {ExpectedColumns, ExpectedColumns \ {"YOE"}},
        oc \in {{}, {"Code Challenge Score"}},
        ok \in BOOLEAN,
        rows \in SeqsUpTo(RowPool, MaxBadRows)}

RawInputs == GoodInputs \cup BadInputs

\* a store left by an earlier run
OldDb == [exists |-> TRUE, tables |-> transform_data(<<SecondRow>>).tables]

\* ------------------------------------------------------------------- state
VARIABLES raw, pc, df, tables, warning, store, store0, loaded, error

vars == <<raw, pc, df, tables, warning, store, store0, loaded, error>>

Init ==
    /\ raw \in RawInputs
    /\ pc = "extract"
    /\ df = <<>>
    /\ tables = EmptyTables
    /\ warning = <<>>
    /\ store \in {NoDb, OldDb}
    /\ store0 = store
    /\ loaded = <<>>
    /\ error = "none"

Run_extract_data ==
    /\ pc = "extract"
    /\ LET res == extract_data(raw)
       IN /\ df' = res.df
          /\ error' = res.error
          /\ pc' = next_stage("extract", res.raised)
    /\ UNCHANGED <<raw, tables, warning, store, store0, loaded>>

Run_handle_data_quality ==
    /\ pc = "clean"
    /\ df' = handle_data_quality(df)
    /\ pc' = "hiring"
    /\ UNCHANGED <<raw, tables, warning, store, store0, loaded, error>>

Run_apply_hiring_rule ==
    /\ pc = "hiring"
    /\ df' = apply_hiring_rule(df)
    /\ pc' = "dim_candidate"
    /\ UNCHANGED <<raw, tables, warning, store, store0, loaded, error>>

Run_create_dim_candidate ==
    /\ pc = "dim_candidate"
    /\ tables' = [tables EXCEPT !["dim_candidate"] = create_dim_candidate(df)]
    /\ pc' = "dim_date"
    /\ UNCHANGED <<raw, df, warning, store, store0, loaded, error>>

Run_create_dim_date ==
    /\ pc = "dim_date"
    /\ tables' = [tables EXCEPT !["dim_date"] = create_dim_date(df)]
    /\ pc' = "dim_country"
    /\ UNCHANGED <<raw, df, warning, store, store0, loaded, error>>

Run_create_dim_country ==
    /\ pc = "dim_country"
    /\ tables' = [tables EXCEPT !["dim_country"] = create_dim_country(df)]
    /\ pc' = "dim_seniority"
    /\ UNCHANGED <<raw, df, warning, store, store0, loaded, error>>

Run_create_dim_seniority ==
    /\ pc = "dim_seniority"
    /\ tables' = [tables EXCEPT !["dim_seniority"] = create_dim_seniority(df)]
    /\ pc' = "dim_technology"
    /\ UNCHANGED <<raw, df, warning, store, store0, loaded, error>>

Run_create_dim_technology ==
    /\ pc = "dim_technology"
    /\ tables' = [tables EXCEPT !["dim_technology"] = create_dim_technology(df)]
    /\ pc' = "fact"
    /\ UNCHANGED <<raw, df, warning, store, store0, loaded, error>>

Run_create_fact_table ==
    /\ pc = "fact"
    /\ LET res == create_fact_table(df, tables["dim_candidate"], tables["dim_date"],
                                    tables["dim_country"], tables["dim_seniority"],
                                    tables["dim_technology"])
       IN /\ tables' = [tables EXCEPT !["fact_applications"] = res.fact]
          /\ warning' = res.warning
          /\ error' = IF res.raised THEN "InvalidIndexError" ELSE "none"
          /\ pc' = next_stage("fact", res.raised)
    /\ UNCHANGED <<raw, df, store, store0, loaded>>

Run_create_database ==
    /\ pc = "create_database"
    /\ store' = create_database(store)
    /\ pc' = "load"
    /\ UNCHANGED <<raw, df, tables, warning, store0, loaded, error>>

NextTable == LoadOrder[Len(loaded) + 1]

Run_load_dimension ==
    /\ pc = "load"
    /\ Len(loaded) < Len(LoadOrder)
    /\ NextTable # "fact_applications"
    /\ store' = to_sql(store, NextTable, tables[NextTable])
    /\ loaded' = Append(loaded, NextTable)
    /\ UNCHANGED <<raw, pc, df, tables, warning, store0, error>>

Run_load_fact ==
    /\ pc = "load"
    /\ Len(loaded) < Len(LoadOrder)
    /\ NextTable = "fact_applications"
    /\ store' = to_sql(store, NextTable, tables[NextTable])
    /\ loaded' = Append(loaded, NextTable)
    /\ UNCHANGED <<raw, pc, df, tables, warning, store0, error>>

\* validate_load only reads; conn.close() ends load_data and the run
Run_validate_load ==
    /\ pc = "load"
    /\ Len(loaded) = Len(LoadOrder)
    /\ pc' = "done"
    /\ UNCHANGED <<raw, df, tables, warning, store, store0, loaded, error>>

Next ==
    \/ Run_extract_data
    \/ Run_handle_data_quality
    \/ Run_apply_hiring_rule
    \/ Run_create_dim_candidate
    \/ Run_create_dim_date
    \/ Run_create_dim_country
    \/ Run_create_dim_seniority
    \/ Run_create_dim_technology
    \/ Run_create_fact_table
    \/ Run_create_database
    \/ Run_load_dimension
    \/ Run_load_fact
    \/ Run_validate_load

Spec == Init /\ [][Next]_vars

\* ---------------------------------------- create_fact_table called directly
\* the cleansed frame and the dimension tables come from two row sets, so that
\* a natural key of the frame can be absent from a dimension
Cleansed(rows) == apply_hiring_rule(handle_data_quality(rows))

InitFact ==
    /\ raw = [columns |-> ExpectedColumns, object_cols |-> {}, date_ok |-> TRUE, rows |-> <<>>]
    /\ pc = "fact"
    /\ df \in {Cleansed(rows) : rows \in SeqsUpTo(FactPool, MaxFactRows)}
    /\ tables \in {BuildDims(Cleansed(rows)) @@ EmptyTables :
                      rows \in SeqsUpTo(FactPool, MaxDimRows)}
    /\ warning = <<>>
    /\ store = NoDb
    /\ store0 = store
    /\ loaded = <<>>
    /\ error = "none"

SpecFact == InitFact /\ [][Run_create_fact_table]_vars

\* ================================================================== claims
Returned == pc \in {"create_database", "load", "done"}

TransformRaised == pc = "aborted" /\ error = "InvalidIndexError"

HiringApplied ==
    \/ pc \in {"dim_candidate", "dim_date", "dim_country", "dim_seniority",
               "dim_technology", "fact"}
    \/ Returned
    \/ TransformRaised

DateBuilt ==
    \/ pc \in {"dim_country", "dim_seniority", "dim_technology", "fact"}
    \/ Returned
    \/ TransformRaised

DimsBuilt == pc = "fact" \/ Returned \/ TransformRaised

DimOf ==
    ("candidate_key" :> "dim_candidate") @@ ("date_key" :> "dim_date")
    @@ ("country_key" :> "dim_country") @@ ("seniority_key" :> "dim_seniority")
    @@ ("technology_key" :> "dim_technology")

\* the natural key of a row of the frame for one foreign key
NaturalKey(r, fk) ==
    CASE fk = "candidate_key"  -> <<r["First Name"], r["Last Name"], r["Email"]>>
      [] fk = "date_key"       -> strftime(r["Application Date"])
      [] fk = "country_key"    -> r["Country"]
      [] fk = "seniority_key"  -> r["Seniority"]
      [] fk = "technology_key" -> r["Technology"]

\* the natural key held by a row of a dimension table
DimNaturalKey(d, fk) ==
    CASE fk = "candidate_key"  -> <<d.first_name, d.last_name, d.email>>
      [] fk = "date_key"       -> d.full_date
      [] fk = "country_key"    -> d.country_name
      [] fk = "seniority_key"  -> d.seniority_level
      [] fk = "technology_key" -> d.technology_name

Resolves(tbls, i, fk) ==
    LET c == tbls["fact_applications"][i][fk]
    IN /\ ~isnull(c)
       /\ \E j \in DOMAIN tbls[DimOf[fk]] : tbls[DimOf[fk]][j][fk] = c[1]

\* C1: when transform_data returns, every foreign key of every fact row is
\* non-null and is the surrogate key of a row of its dimension table
C1_ReferentialIntegrity ==
    Returned =>
        \A i \in DOMAIN tables["fact_applications"] :
            \A fk \in Range(FkCols) : Resolves(tables, i, fk)

C1_Witness ==
    /\ pc = "create_database"
    /\ Len(tables["fact_applications"]) = MaxRows
    /\ Len(tables["dim_date"]) >= 2
    /\ Len(tables["dim_candidate"]) >= 2

\* C2: in each of the five dimension tables the surrogate keys are exactly
\* 1..k, k the number of distinct natural keys in the cleansed rows
DenseKeys(dim, fk) ==
    LET k == Cardinality({NaturalKey(r, fk) : r \in Range(df)})
    IN /\ Len(dim) = k
       /\ {dim[i][fk] : i \in DOMAIN dim} = 1..k

C2_DenseKeys ==
    DimsBuilt => \A fk \in Range(FkCols) : DenseKeys(tables[DimOf[fk]], fk)

\* C3: is_hired is 1 exactly when both scores are at least 7, and 0 otherwise;
\* (7, 7) gives 1 and (6, 10) gives 0
C3_HiringRule ==
    HiringApplied =>
        \A i \in DOMAIN df :
            LET c == df[i]["Code Challenge Score"][1]
                t == df[i]["Technical Interview Score"][1]
                h == df[i]["is_hired"]
            IN /\ h \in {<<0>>, <<1>>}
               /\ (h = <<1>>) <=> (c >= 7 /\ t >= 7)
               /\ (c = 7 /\ t = 7) => h = <<1>>
               /\ (c = 6 /\ t = 10) => h = <<0>>

C3_Witness ==
    /\ pc = "dim_candidate"
    /\ \E i, j \in DOMAIN df :
          /\ df[i]["Code Challenge Score"] = <<7>>
          /\ df[i]["Technical Interview Score"] = <<7>>
          /\ df[i]["is_hired"] = <<1>>
          /\ df[j]["Code Challenge Score"] = <<6>>
          /\ df[j]["Technical Interview Score"] = <<10>>
          /\ df[j]["is_hired"] = <<0>>

\* C4: the fact table create_fact_table returns has as many rows as the
\* cleansed frame it was given, whether or not every lookup succeeded
C4_FactRowCount ==
    pc = "create_database" => Len(tables["fact_applications"]) = Len(df)

C4_Witness ==
    /\ pc = "create_database"
    /\ Len(df) = MaxFactRows
    /\ \E i \in DOMAIN tables["fact_applications"] :
          /\ isnull(tables["fact_applications"][i]["date_key"])
          /\ ~isnull(tables["fact_applications"][i]["country_key"])

\* C5 as stated: on a frame without missing values handle_data_quality
\* returns the frame unchanged
C5_IdentityOnNullFree ==
    (pc = "hiring" /\ NullCount(raw.rows) = 0) => df = raw.rows

NoPadding(cell) ==
    \/ cell[1] = <<>>
    \/ ~IsSpace(cell[1][1]) /\ ~IsSpace(cell[1][Len(cell[1])])

\* C5 amended: on a frame without missing values handle_data_quality keeps
\* every row, in order, and changes only the six text columns, to their value
\* without leading and trailing whitespace; it is the identity when no text
\* value carries such whitespace
C5_IdentityUpToStrip ==
    (pc = "hiring" /\ NullCount(raw.rows) = 0) =>
        /\ Len(df) = Len(raw.rows)
        /\ \A i \in DOMAIN df :
              /\ DOMAIN df[i] = DOMAIN raw.rows[i]
              /\ \A c \in DOMAIN df[i] :
                    df[i][c] = IF c \in Range(TextCols)
                               THEN str_strip(raw.rows[i][c])
                               ELSE raw.rows[i][c]
        /\ (\A i \in DOMAIN raw.rows : \A c \in Range(TextCols) : NoPadding(raw.rows[i][c]))
              => df = raw.rows

C5_Witness ==
    /\ pc = "hiring"
    /\ NullCount(raw.rows) = 0
    /\ Len(raw.rows) = MaxRows
    /\ raw.rows[1] = raw.rows[2]
    /\ df # raw.rows

\* C7: when a row's natural key is absent from a dimension table passed to
\* create_fact_table, the call does not raise, keeps the row with that
\* foreign key null, and reports the number of nulls of each affected column
Missing(i, fk) ==
    \A j \in DOMAIN tables[DimOf[fk]] :
        DimNaturalKey(tables[DimOf[fk]][j], fk) # NaturalKey(df[i], fk)

C7_MissingKeyKeptAndReported ==
    (pc # "fact" /\ \E i \in DOMAIN df : \E fk \in Range(FkCols) : Missing(i, fk)) =>
        /\ error = "none"
        /\ Len(tables["fact_applications"]) = Len(df)
        /\ \A i \in DOMAIN df : \A fk \in Range(FkCols) :
              Missing(i, fk) => isnull(tables["fact_applications"][i][fk])
        /\ \A fk \in Range(FkCols) :
              LET n == Cardinality({i \in DOMAIN df : Missing(i, fk)})
              IN n > 0 => (fk \in DOMAIN warning /\ warning[fk] = n)

\* C8: load_data runs only after extract_data and transform_data returned;
\* when either raises the run stops, load_data is not called and the store
\* is as it was before the run
LoadStarted == pc \in {"load", "done"} \/ loaded # <<>> \/ store # store0

C8_LoadOnlyAfterTransform ==
    /\ (pc = "aborted") => (error # "none" /\ store = store0 /\ loaded = <<>>)
    /\ (pc = "create_database" \/ LoadStarted) =>
          /\ error = "none"
          /\ ~extract_data(raw).raised
          /\ ~transform_data(raw.rows).raised

C8_Witness ==
    /\ pc = "aborted"
    /\ error = "InvalidIndexError"
    /\ store0 = OldDb
    /\ store = OldDb

\* C9: when fact_applications is inserted, the five dimension tables are
\* already in the store, and so is every dimension row a fact row references
FactInserted == \E i \in DOMAIN loaded : loaded[i] = "fact_applications"

C9_DimensionsBeforeFact ==
    FactInserted =>
        /\ \A fk \in Range(FkCols) :
              /\ \E i, j \in DOMAIN loaded :
                    i < j /\ loaded[i] = DimOf[fk] /\ loaded[j] = "fact_applications"
              /\ store.tables[DimOf[fk]] = tables[DimOf[fk]]
        /\ \A i \in DOMAIN store.tables["fact_applications"] :
              \A fk \in Range(FkCols) : Resolves(store.tables, i, fk)

C9_Witness ==
    /\ pc = "done"
    /\ Len(store.tables["fact_applications"]) = MaxRows
    /\ Len(store.tables["dim_country"]) >= 2

\* C10: dim_date has one row per distinct calendar date of the cleansed rows,
\* no two rows with the same full_date, and the earlier date has the smaller
\* date_key
C10_OneRowPerCalendarDate ==
    DateBuilt =>
        LET dim == tables["dim_date"]
        IN /\ IsUnique([i \in DOMAIN dim |-> dim[i].full_date])
           /\ {dim[i].full_date : i \in DOMAIN dim}
                 = {strftime(r["Application Date"]) : r \in Range(df)}
           /\ \A i, j \in DOMAIN dim :
                 LexLess(dim[i].full_date[1], dim[j].full_date[1])
                    => dim[i].date_key < dim[j].date_key

\* ------------------------------ the three label dimensions on varied labels
MaxLabelRows == 3

WithLabels(country, seniority, technology) ==
    With(With(With(BaseRow, "Country", Cell(country)), "Seniority", Cell(seniority)),
         "Technology", Cell(technology))

\* ("US","Jr","Go"), ("CO","Sr","Py"), ("U","J","Go"), ("Us","jr","C"),
\* (" CO","Sr "," Py "), (" ","Jr","go")
LabelPool ==
    {BaseRow,
     WithLabels(<<67, 79>>, <<83, 114>>, <<80, 121>>),
     WithLabels(<<85>>, <<74>>, <<71, 111>>),
     WithLabels(<<85, 115>>, <<106, 114>>, <<67>>),
     WithLabels(<<32, 67, 79>>, <<83, 114, 32>>, <<32, 80, 121, 32>>),
     WithLabels(<<32>>, <<74, 114>>, <<103, 111>>)}

InitLabels ==
    /\ raw = [columns |-> ExpectedColumns, object_cols |-> {}, date_ok |-> TRUE, rows |-> <<>>]
    /\ pc = "dim_country"
    /\ df \in {Cleansed(rows) : rows \in SeqsUpTo(LabelPool, MaxLabelRows)}
    /\ tables = [EmptyTables EXCEPT !["dim_candidate"] = create_dim_candidate(df),
                                    !["dim_date"] = create_dim_date(df)]
    /\ warning = <<>>
    /\ store = NoDb
    /\ store0 = store
    /\ loaded = <<>>
    /\ error = "none"

NextLabels ==
    \/ Run_create_dim_country
    \/ Run_create_dim_seniority
    \/ Run_create_dim_technology

SpecLabels == InitLabels /\ [][NextLabels]_vars

\* C11: in dim_country, dim_seniority and dim_technology the rows are the
\* distinct labels of the cleansed rows, and the row with the lexicographically
\* smaller label has the smaller key, whatever the order of the input rows
LabelOrdered(dim, fk, col) ==
    /\ {DimNaturalKey(dim[i], fk) : i \in DOMAIN dim} = {r[col] : r \in Range(df)}
    /\ \A i, j \in DOMAIN dim :
          LexLess(DimNaturalKey(dim[i], fk)[1], DimNaturalKey(dim[j], fk)[1])
             => dim[i][fk] < dim[j][fk]

C11_LabelOrder ==
    /\ pc \in {"dim_seniority", "dim_technology", "fact"}
          => LabelOrdered(tables["dim_country"], "country_key", "Country")
    /\ pc \in {"dim_technology", "fact"}
          => LabelOrdered(tables["dim_seniority"], "seniority_key", "Seniority")
    /\ pc = "fact"
          => LabelOrdered(tables["dim_technology"], "technology_key", "Technology")

\* three labels that first appear in descending order, one a prefix of another
C11_Witness ==
    /\ pc = "fact"
    /\ Len(df) = MaxLabelRows
    /\ LexLess(df[2]["Country"][1], df[1]["Country"][1])
    /\ LexLess(df[3]["Country"][1], df[2]["Country"][1])
    /\ Len(tables["dim_country"]) = 3
    /\ tables["dim_country"][1].country_name = df[3]["Country"]
    /\ Len(tables["dim_technology"]) >= 2

\* C12: handle_data_quality drops exactly the rows with a missing value in
\* some column, keeps the others in their order without filling anything in,
\* and leaves the frame it was given as it was
NullFree(r) == \A c \in DOMAIN r : r[c] # NaN

KeptIndexes(rows) == {i \in DOMAIN rows : NullFree(rows[i])}

\* the index in rows of the k-th row without a missing value
NthKept(rows, k) ==
    CHOOSE i \in KeptIndexes(rows) :
        Cardinality({j \in KeptIndexes(rows) : j <= i}) = k

C12_State ==
    pc = "hiring" =>
        /\ Len(df) = Cardinality(KeptIndexes(raw.rows))
        /\ \A k \in DOMAIN df :
              LET src == raw.rows[NthKept(raw.rows, k)]
              IN /\ DOMAIN df[k] = DOMAIN src
                 /\ \A c \in DOMAIN src :
                       /\ df[k][c] # NaN
                       /\ df[k][c] = IF c \in Range(TextCols) THEN str_strip(src[c])
                                     ELSE src[c]

C12_DropsExactlyNullRows == [](C12_State) /\ [][raw' = raw]_vars

C12_Witness ==
    /\ pc = "hiring"
    /\ Len(raw.rows) = MaxRows
    /\ raw.rows[1]["YOE"] = NaN
    /\ NullFree(raw.rows[2])
    /\ raw.rows[2] # raw.rows[MaxRows]
    /\ Len(df) = MaxRows - 1

\* C13: application_id is 1..N in row order, N the number of cleansed rows,
\* and the fact row with application_id i carries the two scores and is_hired
\* of the i-th cleansed row, also when cleansing removed earlier rows
\* the state in which transform_data has just returned its tables
TransformReturns == pc = "create_database"

C13_ApplicationIdAndMeasures ==
    TransformReturns =>
        LET fact == tables["fact_applications"]
        IN /\ Len(fact) = Cardinality(KeptIndexes(raw.rows))
           /\ \A i \in DOMAIN fact :
                 LET src == raw.rows[NthKept(raw.rows, i)]
                 IN /\ fact[i].application_id = i
                    /\ fact[i].code_challenge_score = src["Code Challenge Score"]
                    /\ fact[i].technical_interview_score = src["Technical Interview Score"]
                    /\ fact[i].code_challenge_score = df[i]["Code Challenge Score"]
                    /\ fact[i].technical_interview_score = df[i]["Technical Interview Score"]
                    /\ fact[i].is_hired = df[i]["is_hired"]

\* the first input row is dropped, the two kept rows differ in score and flag
C13_Witness ==
    /\ pc = "create_database"
    /\ Len(raw.rows) = MaxRows
    /\ ~NullFree(raw.rows[1])
    /\ Len(tables["fact_applications"]) = MaxRows - 1
    /\ tables["fact_applications"][1].is_hired = <<0>>
    /\ tables["fact_applications"][2].is_hired = <<1>>
    /\ tables["fact_applications"][1].code_challenge_score
          # tables["fact_applications"][2].code_challenge_score

\* C14: each foreign key of the i-th fact row is the key of the one dimension
\* row whose natural key is the trimmed natural key of the i-th cleansed row,
\* so two fact rows share a dimension key exactly when their rows have equal
\* natural keys for that dimension
C14_KeysFollowNaturalKeys ==
    TransformReturns =>
        LET fact == tables["fact_applications"]
        IN \A fk \in Range(FkCols) :
              LET dim == tables[DimOf[fk]]
              IN /\ \A i \in DOMAIN fact :
                       LET src == StripRow(raw.rows[NthKept(raw.rows, i)])
                           hit == {j \in DOMAIN dim :
                                      ~isnull(fact[i][fk]) /\ dim[j][fk] = fact[i][fk][1]}
                       IN /\ Cardinality(hit) = 1
                          /\ \A j \in hit : DimNaturalKey(dim[j], fk) = NaturalKey(src, fk)
                 /\ \A i, j \in DOMAIN fact :
                       (fact[i][fk] = fact[j][fk])
                          <=> (NaturalKey(df[i], fk) = NaturalKey(df[j], fk))

\* " A" and "A" share a candidate; the third row shares date, country and
\* technology with them but not candidate and seniority
C14_Witness ==
    /\ pc = "create_database"
    /\ Len(tables["fact_applications"]) = MaxRows
    /\ raw.rows[1]["First Name"] # raw.rows[2]["First Name"]
    /\ LET fact == tables["fact_applications"]
       IN /\ fact[1].candidate_key = fact[2].candidate_key
          /\ fact[3].candidate_key # fact[1].candidate_key
          /\ fact[3].seniority_key # fact[1].seniority_key
          /\ fact[3].date_key = fact[1].date_key
          /\ fact[3].country_key = fact[1].country_key
          /\ fact[3].technology_key = fact[1].technology_key

\* ------------------------------------------- run_pipeline invoked repeatedly
MaxRunRows == 2

RunPool ==
    {BaseRow, SecondRow, With(BaseRow, "Application Date", Cell(<<2024, 1, 10, 9>>))}

RunInputs ==
    {ReadCsv(ExpectedColumns, {}, TRUE, rows) : rows \in SeqsUpTo(RunPool, MaxRunRows)}
    \cup {ReadCsv(ExpectedColumns \ {"YOE"}, {}, TRUE, <<BaseRow>>)}

InitRuns ==
    /\ raw \in RunInputs
    /\ pc = "extract"
    /\ df = <<>>
    /\ tables = EmptyTables
    /\ warning = <<>>
    /\ store = NoDb
    /\ store0 = store
    /\ loaded = <<>>
    /\ error = "none"

\* python src/main.py once more, on whatever file is there then; the store is
\* the one the earlier runs left
Start_next_run ==
    /\ pc \in {"done", "aborted"}
    /\ raw' \in RunInputs
    /\ pc' = "extract"
    /\ df' = <<>>
    /\ tables' = EmptyTables
    /\ warning' = <<>>
    /\ store0' = store
    /\ loaded' = <<>>
    /\ error' = "none"
    /\ UNCHANGED store

NextRuns == Next \/ Start_next_run

SpecRuns == InitRuns /\ [][NextRuns]_vars

\* C15: load_data starts from an emptied store, and a run that completes
\* leaves in the store the six tables of that run and no row of an earlier run
C15_StoreIsThisRun ==
    /\ (pc = "load" /\ loaded = <<>>) => store = [exists |-> TRUE, tables |-> EmptyTables]
    /\ pc \in {"load", "done"} =>
          \A t \in TableNames :
              store.tables[t] = IF t \in Range(loaded) THEN tables[t] ELSE <<>>
    /\ pc = "done" =>
          /\ store.exists
          /\ store.tables = tables
          /\ store.tables = transform_data(raw.rows).tables

\* a completed run over a store that an earlier run had filled with other rows
C15_Witness ==
    /\ pc = "done"
    /\ store0.exists
    /\ Len(store0.tables["fact_applications"]) = MaxRunRows
    /\ Len(store.tables["fact_applications"]) = 1
    /\ store.tables["dim_candidate"] # store0.tables["dim_candidate"]

====
